---- MODULE Spec2Model ----
(***************************************************************************)
(* Render worker (durable queue variant): several worker processes poll a *)
(* PostgreSQL table render_jobs, claim jobs with SELECT ... FOR UPDATE     *)
(* SKIP LOCKED, render, upload, and complete (status + credit debit in one *)
(* transaction) or fail them; a signal handler drains and exits.           *)
(***************************************************************************)
EXTENDS Integers, FiniteSets, Sequences, TLC

(* ------------------------------ bounds -------------------------------- *)
NumJobs == 2
InitialCredits == 3
MaxCalls == 3
MaxSignals == 2
ProgressScale == 1
MaxAttemptsArg == 4
ReportSteps == 3
MaxCallbacks == 3
MaxTicks == 4
StartTime == 20000
MaxUnexpected == 1
MaxJobsCreated == 3
MaxCancels == 2
MessageSlack == 5
MaxApplications == 2

(* ------------------------- program constants -------------------------- *)
\* Number(process.env.MAX_PARALLEL || 4), a process started with
\* MAX_PARALLEL=1
MAX_PARALLEL == 1
DB_RETRY_ATTEMPTS == 3
PROGRESS_UPDATE_INTERVAL_MS == 5000
ErrorLimit == 1000

\* the worker processes polling one store
Workers == {1, 2}
\* render_jobs rows, by id
Jobs == 1..NumJobs
\* render_jobs.created_at: the ids (random UUIDs) do not follow the insertion
\* order; here the row with the largest id was inserted first
CreatedAt(j) == 10 * (NumJobs - j) + 1
NoJob == 0
NoTx == <<"none", 0>>
\* exitCode of a process: not started, running, or the code of process.exit
Running == "running"
Exit0 == "0"
Exit1 == "1"

VARIABLES
    status,            \* render_jobs.status
    progress,          \* render_jobs.progress, in units of 1/ProgressScale
    output_url,        \* render_jobs.output_url
    credits,           \* users.credits of the user owning the jobs
    jobLock,           \* row lock on a render_jobs row: the holding transaction
    userLock,          \* row lock on the users row: the holding transaction
    loopPc,            \* position of workerLoop / getNextJob in each process
    claimJob,          \* res.rows[0] of the claim in flight
    activeRenders,     \* let activeRenders
    shuttingDown,      \* let shuttingDown
    sdPc,              \* position of gracefulShutdown()
    signals,           \* number of shutdown() calls made
    exitCode,          \* process.exit code, Running while the process lives
    taskPc,            \* position of processJob(job) per process and job
    outputFile,        \* let outputFile of processJob is set (FALSE outside it)
    caught,            \* the step whose error processJob's catch holds ("" if none)
    lastProgressValue, \* let lastProgressValue of renderJob (0 outside it)
    pending,           \* fire-and-forget progress writes not yet settled
    returns,           \* history: getNextJob calls of w that returned job j
    calls,             \* history: getNextJob calls started
    threw,             \* history: some getNextJob call threw
    debits,            \* history: committed credit debits per job
    activeAtSignal     \* history: jobs active when shutdown started

dbVars == <<status, progress, output_url, credits, jobLock, userLock>>
loopVars == <<loopPc, claimJob>>
procVars == <<activeRenders, shuttingDown, sdPc, signals, exitCode>>
taskVars == <<taskPc, outputFile, caught, lastProgressValue, pending>>
histVars == <<returns, calls, threw, debits, activeAtSignal>>
\* the worker: store, poll loop, process, jobs in flight, history
workerVars == <<dbVars, loopVars, procVars, taskVars, histVars>>

\* one call of withRetry, getClient or safeQuery, followed on its own
VARIABLES
    rKind,      \* the function called ("none" before the call)
    rArg,       \* maxAttempts as passed by the caller
    rPc,        \* position of the call
    attempt,    \* let attempt of each withRetry frame
    lastError,  \* let lastError of each withRetry frame
    held,       \* clients checked out of the pool by the call
    result,     \* how the call settled
    invoked,    \* history: invocations of each frame's operation
    opErrors,   \* history: the errors the outer operation threw, in order
    connects,   \* history: pool.connect() calls
    queries     \* history: client.query() calls

retryVars == <<rKind, rArg, rPc, attempt, lastError, held, result, invoked,
               opErrors, connects, queries>>

\* the progress reporter of one renderJob call, followed on its own with
\* its clock; progress values are in units of 1/ReportSteps
VARIABLES
    now,                 \* Date.now()
    lastProgressUpdate,  \* let lastProgressUpdate
    lastReported,        \* let lastProgressValue of the render followed here
    callbacks,           \* history: onProgress calls made
    lastFed,             \* history: progress of the last onProgress call
    lastFedAt,           \* history: time of the last onProgress call
    increasing,          \* history: each call's progress exceeded the last's
    ticks,               \* history: clock steps taken
    issued               \* history: the progress writes issued, in order

progressVars == <<now, lastProgressUpdate, lastReported, callbacks, lastFed,
                  lastFedAt, increasing, ticks, issued>>

\* const MAX_PARALLEL as the process read it from its environment
VARIABLES maxParallel

\* the 'unhandledRejection' and 'uncaughtException' events of a process
VARIABLES
    handled,     \* history: events the handlers of each process have taken
    unexpected   \* history: the last event taken, and its error message

errorVars == <<handled, unexpected>>

\* makeRenderQueue and the HTTP API of the in-memory server
VARIABLES
    jobs,            \* const jobs = new Map<string, JobState>()
    queue,           \* let queue: the promise chain and its callbacks
    processing,      \* the job id of the processRender call in flight
    renderPc,        \* the await that call is at
    cancelled,       \* the flag of its makeCancelSignal()
    created,         \* history: createJob calls, the ids they drew
    rendered,        \* history: ids a processRender call found in jobs
    cancelAccepted,  \* history: status at the last accepted DELETE
    deletes,         \* history: DELETE /renders/:jobId requests
    response         \* history: the last response to such a request

registryVars == <<jobs, queue, processing, renderPc, cancelled, created,
                  rendered, cancelAccepted, deletes, response>>

\* the row of the job whose render the progress reporter belongs to
VARIABLES
    rowStatus,     \* render_jobs.status of that job
    rowProgress,   \* render_jobs.progress, in units of 1/ReportSteps
    rowOutputUrl,  \* render_jobs.output_url is set
    applied        \* the issued progress writes whose safeQuery has settled

rowVars == <<rowStatus, rowProgress, rowOutputUrl, applied>>

\* the files of TEMP_DIR
VARIABLES
    tempFile,    \* TEMP_DIR/<job id>.mp4 exists
    cleanupLog   \* what cleanupFile logged for that path, "" when not called

diskVars == <<tempFile, cleanupLog>>

\* completeJob and failJob applied to the row of one job and to its user
VARIABLES
    tRow,        \* the render_jobs row of the job
    tCredits,    \* users.credits of its owner
    tNow,        \* NOW() of the database
    tApplied,    \* history: the calls applied, with their arguments
    tAfter       \* history: row and credits after each of them

terminalVars == <<tRow, tCredits, tNow, tApplied, tAfter>>

\* what no step of the worker loop, of a job or of a signal changes
extVars == <<maxParallel, retryVars, progressVars, errorVars, registryVars,
             rowVars, diskVars, terminalVars>>

\* what no step of the retry wrapper changes
nonRetryVars ==
    <<workerVars, maxParallel, progressVars, errorVars, registryVars,
      rowVars, diskVars, terminalVars>>

\* what no step of the progress reporter changes
nonProgressVars ==
    <<workerVars, maxParallel, retryVars, errorVars, registryVars,
      rowVars, diskVars, terminalVars>>

\* what the process-level error handlers leave alone, the worker apart
nonWorkerErrorVars ==
    <<maxParallel, retryVars, progressVars, registryVars,
      rowVars, diskVars, terminalVars>>

\* what no step of the in-memory server changes
nonRegistryVars ==
    <<workerVars, maxParallel, retryVars, progressVars, errorVars,
      rowVars, diskVars, terminalVars>>

\* what a step of a job that touches TEMP_DIR leaves alone, the worker
\* apart
nonWorkerDiskVars ==
    <<maxParallel, retryVars, progressVars, errorVars, registryVars, rowVars,
      terminalVars>>

\* what completeJob and failJob, applied to one row, leave alone
nonTerminalVars ==
    <<workerVars, maxParallel, retryVars, progressVars, errorVars,
      registryVars, rowVars, diskVars>>

\* what no write to the row of the rendered job changes
nonRowVars ==
    <<workerVars, maxParallel, retryVars, progressVars, errorVars,
      registryVars, diskVars, terminalVars>>

vars == <<workerVars, extVars>>

(* ------------------------------ helpers ------------------------------- *)
Min(a, b) == IF a < b THEN a ELSE b

RECURSIVE SumOver(_, _)
SumOver(f, S) == IF S = {} THEN 0
                 ELSE LET x == CHOOSE y \in S : TRUE
                      IN f[x] + SumOver(f, S \ {x})

\* GREATEST(a, b) of the debit statement
GreatestNoFloor(a, b) == a
Greatest(a, b) == IF a >= b THEN a ELSE b

\* job.input_props.videoInfo of each job
VideoInfo(j) == [durationInFrames |-> 1799 + j, fps |-> 30]

\* Math.ceil(durationInFrames / fps / 60 * 2)
CreditsToDeduct(j) ==
    (2 * VideoInfo(j).durationInFrames + VideoInfo(j).fps * 60 - 1)
        \div (VideoInfo(j).fps * 60)

\* `renders/${jobId}.mp4`
StorageKey(j) == <<"renders", j>>
NoUrl == <<>>

Alive(w) == exitCode[w] = Running

ClaimTx(w) == <<"claim", w>>
CompleteTx(w, j) == <<"complete", w, j>>

\* transactions a process has open die with it; the server rolls them back
\* and frees their row locks
LocksAfterExit(w, locks) ==
    [k \in DOMAIN locks |->
        IF locks[k] # NoTx /\ locks[k][2] = w THEN NoTx ELSE locks[k]]

(* --------------------------- withRetry values ------------------------- *)
\* the withRetry frames of one call: the call itself, and the getClient()
\* inside the operation safeQuery retries
Outer == "outer"
Inner == "inner"

\* an Error by its message: the "<context> failed after <n> attempts: "
\* prefixes withRetry has put in front, and the underlying message
BaseError(message) == [layers |-> <<>>, cause |-> message]

\* let lastError: Error | undefined; `${lastError?.message}`
NoError == BaseError("undefined")

\* new Error(`${context} failed after ${maxAttempts} attempts:
\*            ${lastError?.message}`)
RetryError(context, maxAttempts, last) ==
    [layers |-> <<[context |-> context, attempts |-> maxAttempts]>>
                \o last.layers,
     cause |-> last.cause]

\* what pool.connect(), client.query() and a caller's operation reject with
ConnectErrors == {BaseError("ECONNREFUSED")}
QueryErrors == {BaseError("statement timeout")}
OperationErrors == {BaseError("boom"), BaseError("undefined")}

Pending == [state |-> "pending", value |-> "", error |-> NoError]
Returned(v) == [state |-> "returned", value |-> v, error |-> NoError]
Threw(e) == [state |-> "threw", value |-> "", error |-> e]

RetryInit ==
    /\ rKind = "none"
    /\ rArg = DB_RETRY_ATTEMPTS
    /\ rPc = "idle"
    /\ attempt = [f \in {Outer, Inner} |-> 0]
    /\ lastError = [f \in {Outer, Inner} |-> NoError]
    /\ held = 0
    /\ result = Pending
    /\ invoked = [f \in {Outer, Inner} |-> 0]
    /\ opErrors = <<>>
    /\ connects = 0
    /\ queries = 0

\* renderJob up to renderMedia(...): let lastProgressUpdate = 0;
\* let lastProgressValue = 0
ProgressInit ==
    /\ now = StartTime
    /\ lastProgressUpdate = 0
    /\ lastReported = 0
    /\ callbacks = 0
    /\ lastFed = 0
    /\ lastFedAt = 0
    /\ increasing = TRUE
    /\ ticks = 0
    /\ issued = <<>>

ErrorInit ==
    /\ handled = [w \in Workers |-> 0]
    /\ unexpected = [w \in Workers |-> [event |-> "none", message |-> <<>>]]

\* randomUUID(): the ids createJob draws, in the order it draws them
JobIds == 1..MaxJobsCreated

\* jobs.get(jobId) === undefined
Absent == [status |-> "absent", cancel |-> "none"]

RegistryInit ==
    /\ jobs = [id \in JobIds |-> Absent]
    /\ queue = [state |-> "fulfilled", callbacks |-> <<>>]
    /\ processing = 0
    /\ renderPc = "idle"
    /\ cancelled = FALSE
    /\ created = 0
    /\ rendered = [id \in JobIds |-> FALSE]
    /\ cancelAccepted = [id \in JobIds |-> "none"]
    /\ deletes = 0
    /\ response = [jobId |-> 0, code |-> 0]

\* the row of a job getNextJob has returned: rendering, progress 0
RowInit ==
    /\ rowStatus = "rendering"
    /\ rowProgress = 0
    /\ rowOutputUrl = FALSE
    /\ applied = {}

\* TEMP_DIR holds no output yet
DiskInit ==
    /\ tempFile = [j \in Jobs |-> FALSE]
    /\ cleanupLog = [j \in Jobs |-> ""]

\* a column that holds NULL (text columns hold their characters)
NullText == <<"NULL">>

\* the row of a job getNextJob has returned, and its owner's credits
TerminalInit ==
    /\ tRow = [status |-> "rendering", output_url |-> NoUrl,
               progress |-> 0, completed_at |-> 0, error |-> NullText]
    /\ tCredits = InitialCredits
    /\ tNow = 1
    /\ tApplied = <<>>
    /\ tAfter = <<>>

ExtInit ==
    /\ RetryInit /\ ProgressInit /\ ErrorInit /\ RegistryInit
    /\ RowInit /\ DiskInit /\ TerminalInit

(* ------------------------------- Init --------------------------------- *)
\* the state once the processes of P, started with MAX_PARALLEL=cap, have
\* reached workerLoop
InitWith(P, cap) ==
    /\ status = [j \in Jobs |-> "queued"]
    /\ progress = [j \in Jobs |-> 0]
    /\ output_url = [j \in Jobs |-> NoUrl]
    /\ credits = InitialCredits
    /\ jobLock = [j \in Jobs |-> NoTx]
    /\ userLock = NoTx
    /\ loopPc = [w \in Workers |-> "top"]
    /\ claimJob = [w \in Workers |-> NoJob]
    /\ activeRenders = [w \in Workers |-> 0]
    /\ shuttingDown = [w \in Workers |-> FALSE]
    /\ sdPc = [w \in Workers |-> "none"]
    /\ signals = [w \in Workers |-> 0]
    /\ exitCode = [w \in Workers |-> IF w \in P THEN Running
                                                  ELSE "not started"]
    /\ taskPc = [w \in Workers |-> [j \in Jobs |-> "none"]]
    /\ outputFile = [w \in Workers |-> [j \in Jobs |-> FALSE]]
    /\ caught = [w \in Workers |-> [j \in Jobs |-> ""]]
    /\ lastProgressValue = [w \in Workers |-> [j \in Jobs |-> 0]]
    /\ pending = [w \in Workers |-> [j \in Jobs |-> {}]]
    /\ returns = [w \in Workers |-> [j \in Jobs |-> 0]]
    /\ calls = 0
    /\ threw = FALSE
    /\ debits = [j \in Jobs |-> 0]
    /\ activeAtSignal = [w \in Workers |-> {}]
    /\ maxParallel = cap
    /\ ExtInit

\* one worker process
Init == InitWith({1}, MAX_PARALLEL)

(* --------------------------- workerLoop ------------------------------- *)
\* if (activeRenders >= MAX_PARALLEL)
AtCapacityOffByOne(w) == activeRenders[w] > maxParallel
AtCapacity(w) == activeRenders[w] >= maxParallel

\* pool.connect() rejects once pool.end() has been called
PoolUsable(w) == sdPc[w] # "ending"

\* while (!shuttingDown) is false: workerLoop returns
LoopExit(w) ==
    /\ Alive(w) /\ loopPc[w] = "top"
    /\ shuttingDown[w]
    /\ loopPc' = [loopPc EXCEPT ![w] = "stopped"]
    /\ UNCHANGED <<dbVars, claimJob, procVars, taskVars, histVars>>
    /\ UNCHANGED extVars

\* activeRenders >= MAX_PARALLEL: await sleep(500); continue
LoopBackpressure(w) ==
    /\ Alive(w) /\ loopPc[w] = "top"
    /\ ~shuttingDown[w]
    /\ AtCapacity(w)
    /\ loopPc' = [loopPc EXCEPT ![w] = "sleep"]
    /\ UNCHANGED <<dbVars, claimJob, procVars, taskVars, histVars>>
    /\ UNCHANGED extVars

\* a sleep of the loop ends (500, POLL_INTERVAL or 2 * POLL_INTERVAL)
LoopWake(w) ==
    /\ Alive(w)
    /\ loopPc[w] = "sleep"
    /\ loopPc' = [loopPc EXCEPT ![w] = "top"]
    /\ UNCHANGED <<dbVars, claimJob, procVars, taskVars, histVars>>
    /\ UNCHANGED extVars

(* ---------------------------- getNextJob ------------------------------ *)
\* WHERE status = 'queued'
ClaimableAnyStatus(j) == TRUE
Claimable(j) == status[j] = "queued"

\* FOR UPDATE SKIP LOCKED: rows locked by another transaction are skipped
VisibleIgnoringLocks(j) == TRUE
SkipLocked(j) == jobLock[j] = NoTx

\* ORDER BY created_at ASC LIMIT 1
Newest(rows) ==
    CHOOSE j \in rows : \A k \in rows : CreatedAt(j) >= CreatedAt(k)
Oldest(rows) ==
    CHOOSE j \in rows : \A k \in rows : CreatedAt(j) <= CreatedAt(k)

\* SET status = 'rendering'
ClaimedStatusUnchanged == "queued"
ClaimedStatus == "rendering"

\* job = await getNextJob(): the call starts and awaits getClient()
ClaimStart(w) ==
    /\ Alive(w) /\ loopPc[w] = "top"
    /\ ~shuttingDown[w]
    /\ ~AtCapacity(w)
    /\ calls < MaxCalls
    /\ calls' = calls + 1
    /\ loopPc' = [loopPc EXCEPT ![w] = "begin"]
    /\ UNCHANGED <<dbVars, claimJob, procVars, taskVars,
                   returns, threw, debits, activeAtSignal>>
    /\ UNCHANGED extVars

\* getClient() resolves; SET statement_timeout; BEGIN;
\* SELECT ... ORDER BY created_at ASC LIMIT 1 FOR UPDATE SKIP LOCKED
ClaimSelect(w) ==
    /\ Alive(w) /\ loopPc[w] = "begin"
    /\ PoolUsable(w)
    /\ LET rows == {j \in Jobs : Claimable(j) /\ SkipLocked(j)}
       IN IF rows = {}
          THEN \* ROLLBACK; return null; the loop sleeps POLL_INTERVAL
               /\ loopPc' = [loopPc EXCEPT ![w] = "sleep"]
               /\ UNCHANGED <<jobLock, claimJob>>
          ELSE /\ jobLock' = [jobLock EXCEPT ![Oldest(rows)] = ClaimTx(w)]
               /\ claimJob' = [claimJob EXCEPT ![w] = Oldest(rows)]
               /\ loopPc' = [loopPc EXCEPT ![w] = "selected"]
    /\ UNCHANGED <<status, progress, output_url, credits, userLock,
                   procVars, taskVars, histVars>>
    /\ UNCHANGED extVars

\* UPDATE render_jobs SET status = 'rendering', started_at = NOW();
\* COMMIT; client.release(); return job. The loop resumes in the same
\* turn of the event loop: activeRenders++; processJob(job, serveUrl) starts
ClaimCommit(w) ==
    /\ Alive(w) /\ loopPc[w] = "selected"
    /\ status' = [status EXCEPT ![claimJob[w]] = ClaimedStatus]
    /\ jobLock' = [jobLock EXCEPT ![claimJob[w]] = NoTx]
    /\ returns' = [returns EXCEPT ![w][claimJob[w]] = @ + 1]
    /\ activeRenders' = [activeRenders EXCEPT ![w] = @ + 1]
    /\ taskPc' = [taskPc EXCEPT ![w][claimJob[w]] = "render"]
    /\ outputFile' = [outputFile EXCEPT ![w][claimJob[w]] = FALSE]
    /\ lastProgressValue' = [lastProgressValue EXCEPT ![w][claimJob[w]] = 0]
    /\ claimJob' = [claimJob EXCEPT ![w] = NoJob]
    /\ loopPc' = [loopPc EXCEPT ![w] = "top"]
    /\ UNCHANGED <<progress, output_url, credits, userLock, shuttingDown,
                   sdPc, signals, exitCode, caught, pending, calls, threw,
                   debits, activeAtSignal>>
    /\ UNCHANGED extVars

\* try { job = await getNextJob() } catch (err) { ...; await
\* sleep(POLL_INTERVAL * 2); continue }: where the loop is after the error
AfterClaimErrorUncaught == "stopped"
AfterClaimError == "sleep"

\* getClient() rejects after its retries, or a statement of the claim
\* transaction fails (ROLLBACK, release): the call throws; the loop logs and
\* sleeps 2 * POLL_INTERVAL
ClaimFail(w) ==
    /\ Alive(w) /\ loopPc[w] \in {"begin", "selected"}
    /\ jobLock' = LocksAfterExit(w, jobLock)
    /\ claimJob' = [claimJob EXCEPT ![w] = NoJob]
    /\ threw' = TRUE
    /\ loopPc' = [loopPc EXCEPT ![w] = AfterClaimError]
    /\ UNCHANGED <<status, progress, output_url, credits, userLock,
                   procVars, taskVars, returns, calls, debits,
                   activeAtSignal>>
    /\ UNCHANGED extVars

(* ----------------------------- renderJob ------------------------------ *)
\* if (now - lastProgressUpdate > PROGRESS_UPDATE_INTERVAL_MS
\*     && progressRounded !== lastProgressValue)
ThrottlePassEither(elapsed, progressRounded, last) ==
    elapsed \/ progressRounded # last
ThrottlePass(elapsed, progressRounded, last) ==
    elapsed /\ progressRounded # last

\* onProgress({progress}): the adapter reports non-decreasing progress; a
\* callback that passes the throttle issues a fire-and-forget safeQuery
OnProgress(w, j, reported) ==
    /\ Alive(w) /\ taskPc[w][j] = "render"
    /\ \E p \in reported, elapsed \in BOOLEAN :
        /\ p >= lastProgressValue[w][j]
        /\ ThrottlePass(elapsed, p, lastProgressValue[w][j])
        /\ lastProgressValue' = [lastProgressValue EXCEPT ![w][j] = p]
        /\ pending' = [pending EXCEPT ![w][j] = @ \cup {p}]
    /\ UNCHANGED <<dbVars, loopVars, procVars, taskPc, outputFile, caught,
                   histVars>>
    /\ UNCHANGED extVars

\* the adapter reports only the end of the render, progress 1
RenderProgressFinal(w, j) == OnProgress(w, j, {ProgressScale})

\* UPDATE render_jobs SET progress = $1 WHERE id = $2 (autocommit)
ProgressWrite(w, j) ==
    /\ Alive(w) /\ PoolUsable(w)
    /\ jobLock[j] = NoTx
    /\ \E p \in pending[w][j] :
        /\ progress' = [progress EXCEPT ![j] = p]
        /\ pending' = [pending EXCEPT ![w][j] = @ \ {p}]
    /\ UNCHANGED <<status, output_url, credits, jobLock, userLock,
                   loopVars, procVars, taskPc, outputFile, caught,
                   lastProgressValue, histVars>>
    /\ UNCHANGED extVars

\* safeQuery of a progress write rejects after its retries: logged only
ProgressWriteFail(w, j) ==
    /\ Alive(w)
    /\ \E p \in pending[w][j] :
        pending' = [pending EXCEPT ![w][j] = @ \ {p}]
    /\ UNCHANGED <<dbVars, loopVars, procVars, taskPc, outputFile, caught,
                   lastProgressValue, histVars>>
    /\ UNCHANGED extVars

\* renderMedia resolves: return outputPath
RenderDoneStep(w, j) ==
    /\ Alive(w) /\ taskPc[w][j] = "render"
    /\ outputFile' = [outputFile EXCEPT ![w][j] = TRUE]
    /\ taskPc' = [taskPc EXCEPT ![w][j] = "upload"]
    /\ lastProgressValue' = [lastProgressValue EXCEPT ![w][j] = 0]
    /\ UNCHANGED <<dbVars, loopVars, procVars, caught, pending, histVars>>

RenderDone(w, j) ==
    /\ RenderDoneStep(w, j)
    /\ UNCHANGED extVars

\* renderMedia has written outputLocation when it resolves
RenderDoneOnDisk(w, j) ==
    /\ RenderDoneStep(w, j)
    /\ tempFile' = [tempFile EXCEPT ![j] = TRUE]
    /\ UNCHANGED cleanupLog
    /\ UNCHANGED nonWorkerDiskVars

\* selectComposition or renderMedia rejects: catch (err), outputFile = ""
RenderFailStep(w, j) ==
    /\ Alive(w) /\ taskPc[w][j] = "render"
    /\ taskPc' = [taskPc EXCEPT ![w][j] = "fail"]
    /\ caught' = [caught EXCEPT ![w][j] = "renderJob"]
    /\ lastProgressValue' = [lastProgressValue EXCEPT ![w][j] = 0]
    /\ UNCHANGED <<dbVars, loopVars, procVars, outputFile, pending, histVars>>

RenderFail(w, j) ==
    /\ RenderFailStep(w, j)
    /\ UNCHANGED extVars

\* selectComposition rejects before anything is written; renderMedia
\* rejects with outputLocation written in part, or not at all
RenderFailOnDisk(w, j) ==
    /\ RenderFailStep(w, j)
    /\ \E partial \in BOOLEAN :
        tempFile' = [tempFile EXCEPT ![j] = partial]
    /\ UNCHANGED cleanupLog
    /\ UNCHANGED nonWorkerDiskVars

(* ----------------------------- processJob ----------------------------- *)
\* uploadToStorage resolves, creditsToDeduct is computed, completeJob is
\* called and awaits getClient()
UploadDone(w, j) ==
    /\ Alive(w) /\ taskPc[w][j] = "upload"
    /\ taskPc' = [taskPc EXCEPT ![w][j] = "c_begin"]
    /\ UNCHANGED <<dbVars, loopVars, procVars, outputFile, caught,
                   lastProgressValue, pending, histVars>>
    /\ UNCHANGED extVars

\* uploadToStorage rejects: catch (err)
UploadFail(w, j) ==
    /\ Alive(w) /\ taskPc[w][j] = "upload"
    /\ taskPc' = [taskPc EXCEPT ![w][j] = "fail"]
    /\ caught' = [caught EXCEPT ![w][j] = "uploadToStorage"]
    /\ UNCHANGED <<dbVars, loopVars, procVars, outputFile,
                   lastProgressValue, pending, histVars>>
    /\ UNCHANGED extVars

(* ----------------------------- completeJob ---------------------------- *)
\* getClient() resolves; BEGIN;
\* UPDATE render_jobs SET status = 'completed', ... WHERE id = $2: takes
\* the row lock, the write stays inside the transaction
CompleteUpdateJob(w, j) ==
    /\ Alive(w) /\ taskPc[w][j] = "c_begin"
    /\ PoolUsable(w)
    /\ jobLock[j] = NoTx
    /\ jobLock' = [jobLock EXCEPT ![j] = CompleteTx(w, j)]
    /\ taskPc' = [taskPc EXCEPT ![w][j] = "c_job"]
    /\ UNCHANGED <<status, progress, output_url, credits, userLock,
                   loopVars, procVars, outputFile, caught,
                   lastProgressValue, pending, histVars>>
    /\ UNCHANGED extVars

\* UPDATE users SET credits = GREATEST(credits - $1, 0) WHERE id = $2:
\* takes the user's row lock, the write stays inside the transaction
CompleteUpdateUser(w, j) ==
    /\ Alive(w) /\ taskPc[w][j] = "c_job"
    /\ userLock = NoTx
    /\ userLock' = CompleteTx(w, j)
    /\ taskPc' = [taskPc EXCEPT ![w][j] = "c_user"]
    /\ UNCHANGED <<status, progress, output_url, credits, jobLock,
                   loopVars, procVars, outputFile, caught,
                   lastProgressValue, pending, histVars>>
    /\ UNCHANGED extVars

\* COMMIT: both writes become durable; then finally { cleanupFile }
CompleteCommit(w, j) ==
    /\ Alive(w) /\ taskPc[w][j] = "c_user"
    /\ status' = [status EXCEPT ![j] = "completed"]
    /\ output_url' = [output_url EXCEPT ![j] = StorageKey(j)]
    /\ progress' = [progress EXCEPT ![j] = ProgressScale]
    /\ credits' = Greatest(credits - CreditsToDeduct(j), 0)
    /\ debits' = [debits EXCEPT ![j] = @ + 1]
    /\ jobLock' = [jobLock EXCEPT ![j] = NoTx]
    /\ userLock' = NoTx
    /\ taskPc' = [taskPc EXCEPT ![w][j] = "cleanup"]
    /\ UNCHANGED <<loopVars, procVars, outputFile, caught, lastProgressValue,
                   pending, returns, calls, threw, activeAtSignal>>
    /\ UNCHANGED extVars

\* catch (err) { ROLLBACK }: which writes of the open transaction are
\* durable afterwards
JobWriteKeptWithoutTransaction(pc) == pc \in {"c_job", "c_user"}
JobWriteKeptByRollback(pc) == FALSE

DebitKeptWithoutTransaction(pc) == pc = "c_user"
DebitKeptByRollback(pc) == FALSE

\* getClient() rejects, or a statement of completeJob fails (ROLLBACK,
\* release): completeJob throws to processJob's catch
CompleteFail(w, j) ==
    /\ Alive(w) /\ taskPc[w][j] \in {"c_begin", "c_job", "c_user"}
    /\ IF JobWriteKeptByRollback(taskPc[w][j])
       THEN /\ status' = [status EXCEPT ![j] = "completed"]
            /\ output_url' = [output_url EXCEPT ![j] = StorageKey(j)]
            /\ progress' = [progress EXCEPT ![j] = ProgressScale]
       ELSE UNCHANGED <<status, output_url, progress>>
    /\ IF DebitKeptByRollback(taskPc[w][j])
       THEN /\ credits' = Greatest(credits - CreditsToDeduct(j), 0)
            /\ debits' = [debits EXCEPT ![j] = @ + 1]
       ELSE UNCHANGED <<credits, debits>>
    /\ jobLock' = [jobLock EXCEPT
                     ![j] = IF @ = CompleteTx(w, j) THEN NoTx ELSE @]
    /\ userLock' = IF userLock = CompleteTx(w, j) THEN NoTx ELSE userLock
    /\ taskPc' = [taskPc EXCEPT ![w][j] = "fail"]
    /\ caught' = [caught EXCEPT ![w][j] = "completeJob"]
    /\ UNCHANGED <<loopVars, procVars, outputFile, lastProgressValue,
                   pending, returns, calls, threw, activeAtSignal>>
    /\ UNCHANGED extVars

(* ------------------------------ failJob ------------------------------- *)
\* what processJob's finally block does next
AfterCatch(w, j) == IF outputFile[w][j] THEN "cleanup" ELSE "settle"

\* UPDATE render_jobs SET status = 'failed', error = $1 WHERE id = $2
FailJobWrite(w, j) ==
    /\ Alive(w) /\ taskPc[w][j] = "fail"
    /\ PoolUsable(w)
    /\ jobLock[j] = NoTx
    /\ status' = [status EXCEPT ![j] = "failed"]
    /\ taskPc' = [taskPc EXCEPT ![w][j] = AfterCatch(w, j)]
    /\ caught' = [caught EXCEPT ![w][j] = ""]
    /\ UNCHANGED <<progress, output_url, credits, jobLock, userLock,
                   loopVars, procVars, outputFile, lastProgressValue,
                   pending, histVars>>
    /\ UNCHANGED extVars

\* safeQuery rejects after its retries: .catch logs CRITICAL, nothing is
\* written
FailJobGiveUp(w, j) ==
    /\ Alive(w) /\ taskPc[w][j] = "fail"
    /\ taskPc' = [taskPc EXCEPT ![w][j] = AfterCatch(w, j)]
    /\ caught' = [caught EXCEPT ![w][j] = ""]
    /\ UNCHANGED <<dbVars, loopVars, procVars, outputFile,
                   lastProgressValue, pending, histVars>>
    /\ UNCHANGED extVars

\* finally { if (outputFile) await cleanupFile(outputFile) }: unlink
\* succeeds or its error is logged
CleanupStep(w, j) ==
    /\ Alive(w) /\ taskPc[w][j] = "cleanup"
    /\ taskPc' = [taskPc EXCEPT ![w][j] = "settle"]
    /\ UNCHANGED <<dbVars, loopVars, procVars, outputFile, caught,
                   lastProgressValue, pending, histVars>>

Cleanup(w, j) ==
    /\ CleanupStep(w, j)
    /\ UNCHANGED extVars

\* cleanupFile(filePath): await fs.unlink(filePath) removes the file and
\* "Cleaned up" is logged, or it rejects and "Could not clean up" is
\* logged; an absent file makes it reject
CleanupOnDisk(w, j) ==
    /\ CleanupStep(w, j)
    /\ \E unlinked \in {u \in BOOLEAN : u => tempFile[j]} :
        IF unlinked
        THEN /\ tempFile' = [tempFile EXCEPT ![j] = FALSE]
             /\ cleanupLog' = [cleanupLog EXCEPT ![j] = "Cleaned up"]
        ELSE /\ UNCHANGED tempFile
             /\ cleanupLog' = [cleanupLog EXCEPT
                                 ![j] = "Could not clean up"]
    /\ UNCHANGED nonWorkerDiskVars

\* processJob(...).catch(...).finally(() => { activeRenders-- })
Settle(w, j) ==
    /\ Alive(w) /\ taskPc[w][j] = "settle"
    /\ activeRenders' = [activeRenders EXCEPT ![w] = @ - 1]
    /\ taskPc' = [taskPc EXCEPT ![w][j] = "done"]
    /\ outputFile' = [outputFile EXCEPT ![w][j] = FALSE]
    /\ UNCHANGED <<dbVars, loopVars, shuttingDown, sdPc, signals, exitCode,
                   caught, lastProgressValue, pending, histVars>>
    /\ UNCHANGED extVars

(* --------------------------- setupShutdown ---------------------------- *)
ActiveJobs(w) == {j \in Jobs : taskPc[w][j] \notin {"none", "done"}}

\* clients checked out of the pool: pool.end() resolves when there is none
ClientsOut(w) ==
    (IF loopPc[w] = "selected" THEN 1 ELSE 0)
    + Cardinality({j \in Jobs : taskPc[w][j] \in {"c_job", "c_user"}})

\* while (activeRenders > 0) await sleep(1000)
DrainingNever(w) == FALSE
Draining(w) == activeRenders[w] > 0

\* process.exit(code): open transactions are rolled back by the server,
\* in-flight work of the process is gone
Exit(w, code) ==
    /\ exitCode' = [exitCode EXCEPT ![w] = code]
    /\ jobLock' = LocksAfterExit(w, jobLock)
    /\ userLock' = IF userLock # NoTx /\ userLock[2] = w THEN NoTx
                   ELSE userLock
    /\ pending' = [pending EXCEPT ![w] = [j \in Jobs |-> {}]]
    /\ UNCHANGED <<status, progress, output_url, credits, loopVars,
                   activeRenders, shuttingDown, sdPc, signals, taskPc,
                   outputFile, caught, lastProgressValue, histVars>>
    /\ UNCHANGED extVars

\* shutdown(signal): sets shuttingDown, arms the 30 s forceExit timer and
\* runs gracefulShutdown() up to its first await: the sleep(1000) of the
\* wait loop, or pool.end()
shutdown(w) ==
    /\ Alive(w)
    /\ signals[w] < MaxSignals
    /\ signals' = [signals EXCEPT ![w] = @ + 1]
    /\ shuttingDown' = [shuttingDown EXCEPT ![w] = TRUE]
    /\ sdPc' = [sdPc EXCEPT ![w] = IF @ = "ending" THEN "ending"
                                   ELSE IF Draining(w) THEN "sleep"
                                   ELSE "ending"]
    /\ activeAtSignal' = [activeAtSignal EXCEPT
                            ![w] = IF sdPc[w] = "none" THEN ActiveJobs(w) ELSE @]
    /\ UNCHANGED <<dbVars, loopVars, activeRenders, exitCode, taskVars,
                   returns, calls, threw, debits>>

\* process.on("SIGINT" / "SIGTERM", () => shutdown(signal))
ShutdownSignal(w) ==
    /\ shutdown(w)
    /\ UNCHANGED extVars

\* gracefulShutdown(): sleep(1000) ends with activeRenders at 0, the wait
\* loop ends and pool.end() is called
ShutdownDrained(w) ==
    /\ Alive(w) /\ sdPc[w] = "sleep"
    /\ ~Draining(w)
    /\ sdPc' = [sdPc EXCEPT ![w] = "ending"]
    /\ UNCHANGED <<dbVars, loopVars, activeRenders, shuttingDown, signals,
                   exitCode, taskVars, histVars>>
    /\ UNCHANGED extVars

\* pool.end() resolves once every client is back: process.exit(0)
ExitClean(w) ==
    /\ Alive(w) /\ sdPc[w] = "ending"
    /\ ClientsOut(w) = 0
    /\ Exit(w, Exit0)

\* gracefulShutdown() of a repeated shutdown() call: pool.end() rejects
\* ("Called end on pool more than once"), the error is logged,
\* process.exit(0)
ExitPoolEndRejected(w) ==
    /\ Alive(w) /\ sdPc[w] = "ending"
    /\ signals[w] >= 2
    /\ ~Draining(w)
    /\ Exit(w, Exit0)

\* the forceExit timer fires while gracefulShutdown() is still waiting, in
\* sleep(1000) or for pool.end(): process.exit(1)
ForceExit(w) ==
    /\ Alive(w)
    /\ \/ sdPc[w] = "sleep"
       \/ sdPc[w] = "ending" /\ ClientsOut(w) > 0
    /\ Exit(w, Exit1)

(* ---------------------- withRetry, getClient, safeQuery --------------- *)
\* maxAttempts of a frame: the caller's argument, DB_RETRY_ATTEMPTS when the
\* caller (getClient, safeQuery) passes none
MaxAttemptsOf(f) ==
    IF f = Outer /\ rKind = "withRetry" THEN rArg ELSE DB_RETRY_ATTEMPTS

\* context of a frame
ContextOf(f) ==
    IF f = Inner \/ rKind = "getClient" THEN "Database connection"
    ELSE IF rKind = "safeQuery" THEN "Database query"
    ELSE "operation"

\* for (let attempt = 1; attempt <= maxAttempts; attempt++)
LoopConditionOffByOne(a, maxAttempts) == a < maxAttempts
LoopCondition(a, maxAttempts) == a <= maxAttempts

\* a caller calls withRetry(operation, "operation", n), getClient() or
\* safeQuery(text, params): let attempt = 1
RetryCall ==
    /\ rPc = "idle"
    /\ \E kind \in {"withRetry", "getClient", "safeQuery"},
          n \in 0..MaxAttemptsArg :
        /\ kind # "withRetry" => n = DB_RETRY_ATTEMPTS
        /\ rKind' = kind
        /\ rArg' = n
    /\ attempt' = [attempt EXCEPT ![Outer] = 1]
    /\ rPc' = "outer_loop"
    /\ UNCHANGED <<lastError, held, result, invoked, opErrors, connects,
                   queries>>
    /\ UNCHANGED nonRetryVars

\* catch (err) of frame f: lastError = err; if (attempt < maxAttempts)
\* await sleep(DB_RETRY_DELAY_MS * attempt); else the loop steps on
Caught(f, err) ==
    /\ lastError' = [lastError EXCEPT ![f] = err]
    /\ opErrors' = IF f = Outer THEN Append(opErrors, err) ELSE opErrors
    /\ IF attempt[f] < MaxAttemptsOf(f)
       THEN /\ rPc' = IF f = Outer THEN "outer_sleep" ELSE "inner_sleep"
            /\ UNCHANGED attempt
       ELSE /\ rPc' = IF f = Outer THEN "outer_loop" ELSE "inner_loop"
            /\ attempt' = [attempt EXCEPT ![f] = @ + 1]

\* the loop condition of the outer frame holds: try { return await
\* operation() }. safeQuery's operation starts with getClient(), a
\* withRetry call of its own
OuterTry ==
    /\ rPc = "outer_loop"
    /\ LoopCondition(attempt[Outer], MaxAttemptsOf(Outer))
    /\ invoked' = [invoked EXCEPT ![Outer] = @ + 1]
    /\ IF rKind = "safeQuery"
       THEN /\ attempt' = [attempt EXCEPT ![Inner] = 1]
            /\ lastError' = [lastError EXCEPT ![Inner] = NoError]
            /\ rPc' = "inner_loop"
            /\ UNCHANGED connects
       ELSE /\ connects' = IF rKind = "getClient" THEN connects + 1
                           ELSE connects
            /\ rPc' = "outer_op"
            /\ UNCHANGED <<attempt, lastError>>
    /\ UNCHANGED <<rKind, rArg, held, result, opErrors, queries>>
    /\ UNCHANGED nonRetryVars

\* the loop of the outer frame is over: throw new Error(...)
OuterExhausted ==
    /\ rPc = "outer_loop"
    /\ ~LoopCondition(attempt[Outer], MaxAttemptsOf(Outer))
    /\ result' = Threw(RetryError(ContextOf(Outer), MaxAttemptsOf(Outer),
                                  lastError[Outer]))
    /\ rPc' = "done"
    /\ UNCHANGED <<rKind, rArg, attempt, lastError, held, invoked, opErrors,
                   connects, queries>>
    /\ UNCHANGED nonRetryVars

\* the caller's operation, or pool.connect() of getClient, resolves:
\* withRetry returns its value
OuterResolve ==
    /\ rPc = "outer_op"
    /\ result' = Returned(IF rKind = "getClient" THEN "client" ELSE "value")
    /\ held' = IF rKind = "getClient" THEN held + 1 ELSE held
    /\ rPc' = "done"
    /\ UNCHANGED <<rKind, rArg, attempt, lastError, invoked, opErrors,
                   connects, queries>>
    /\ UNCHANGED nonRetryVars

\* the caller's operation, or pool.connect() of getClient, rejects
OuterReject ==
    /\ rPc = "outer_op"
    /\ \E err \in IF rKind = "getClient" THEN ConnectErrors
                   ELSE OperationErrors :
        Caught(Outer, err)
    /\ UNCHANGED <<rKind, rArg, held, result, invoked, connects, queries>>
    /\ UNCHANGED nonRetryVars

\* sleep(DB_RETRY_DELAY_MS * attempt) of a frame ends: attempt++
RetrySleepEnd(f) ==
    /\ rPc = (IF f = Outer THEN "outer_sleep" ELSE "inner_sleep")
    /\ attempt' = [attempt EXCEPT ![f] = @ + 1]
    /\ rPc' = (IF f = Outer THEN "outer_loop" ELSE "inner_loop")
    /\ UNCHANGED <<rKind, rArg, lastError, held, result, invoked, opErrors,
                   connects, queries>>
    /\ UNCHANGED nonRetryVars

\* getClient() inside safeQuery's operation: the loop condition holds,
\* pool.connect() is called
InnerTry ==
    /\ rPc = "inner_loop"
    /\ LoopCondition(attempt[Inner], MaxAttemptsOf(Inner))
    /\ invoked' = [invoked EXCEPT ![Inner] = @ + 1]
    /\ connects' = connects + 1
    /\ rPc' = "inner_op"
    /\ UNCHANGED <<rKind, rArg, attempt, lastError, held, result, opErrors,
                   queries>>
    /\ UNCHANGED nonRetryVars

\* getClient() inside safeQuery's operation throws its composite error:
\* the operation rejects with it, into the catch of the outer frame
InnerExhausted ==
    /\ rPc = "inner_loop"
    /\ ~LoopCondition(attempt[Inner], MaxAttemptsOf(Inner))
    /\ Caught(Outer, RetryError(ContextOf(Inner), MaxAttemptsOf(Inner),
                                lastError[Inner]))
    /\ UNCHANGED <<rKind, rArg, held, result, invoked, connects, queries>>
    /\ UNCHANGED nonRetryVars

\* pool.connect() resolves: const client = ...; client.query(text, params)
InnerResolve ==
    /\ rPc = "inner_op"
    /\ held' = held + 1
    /\ queries' = queries + 1
    /\ rPc' = "query"
    /\ UNCHANGED <<rKind, rArg, attempt, lastError, result, invoked,
                   opErrors, connects>>
    /\ UNCHANGED nonRetryVars

\* pool.connect() rejects, into the catch of getClient's frame
InnerReject ==
    /\ rPc = "inner_op"
    /\ \E err \in ConnectErrors : Caught(Inner, err)
    /\ UNCHANGED <<rKind, rArg, held, result, invoked, connects, queries>>
    /\ UNCHANGED nonRetryVars

\* client.query resolves: finally { client.release() }, safeQuery returns
QueryResolve ==
    /\ rPc = "query"
    /\ held' = held - 1
    /\ result' = Returned("rows")
    /\ rPc' = "done"
    /\ UNCHANGED <<rKind, rArg, attempt, lastError, invoked, opErrors,
                   connects, queries>>
    /\ UNCHANGED nonRetryVars

\* client.query rejects: finally { client.release() }, the operation
\* rejects into the catch of the outer frame
QueryReject ==
    /\ rPc = "query"
    /\ held' = held - 1
    /\ \E err \in QueryErrors : Caught(Outer, err)
    /\ UNCHANGED <<rKind, rArg, result, invoked, connects, queries>>
    /\ UNCHANGED nonRetryVars

(* ------------------- renderJob.onProgress with its clock -------------- *)
\* Math.round(progress * 100) / 100, halves rounding up, over the
\* ReportSteps steps that stand for the 100 of the code
ProgressRounded(raw) == (raw + 1) \div 2

\* time passes: one millisecond, or one throttle interval
ClockTick ==
    /\ ticks < MaxTicks
    /\ ticks' = ticks + 1
    /\ \E d \in {1, PROGRESS_UPDATE_INTERVAL_MS} : now' = now + d
    /\ UNCHANGED <<lastProgressUpdate, lastReported, callbacks, lastFed,
                   lastFedAt, increasing, issued>>
    /\ UNCHANGED nonProgressVars

\* onProgress({progress}): const now = Date.now(); a callback that passes
\* the throttle sets lastProgressUpdate and lastProgressValue and issues
\* safeQuery(UPDATE render_jobs SET progress = $1 ...)
ProgressCallback ==
    /\ callbacks < MaxCallbacks
    /\ callbacks' = callbacks + 1
    /\ \E raw \in 0..(2 * ReportSteps) :
        /\ lastFed' = raw
        /\ lastFedAt' = now
        /\ increasing' = (increasing /\ (callbacks = 0 \/ raw > lastFed))
        /\ IF ThrottlePass(now - lastProgressUpdate
                               > PROGRESS_UPDATE_INTERVAL_MS,
                           ProgressRounded(raw), lastReported)
           THEN /\ lastProgressUpdate' = now
                /\ lastReported' = ProgressRounded(raw)
                /\ issued' = Append(issued, [at |-> now,
                                             value |-> ProgressRounded(raw)])
           ELSE UNCHANGED <<lastProgressUpdate, lastReported, issued>>
    /\ UNCHANGED <<now, ticks>>
    /\ UNCHANGED nonProgressVars

(* ------------- the progress writes and the row they update ----------- *)
\* renderMedia calls onProgress only while the render runs
ReportWhileRendering ==
    /\ rowStatus = "rendering"
    /\ ProgressCallback

\* safeQuery(`UPDATE render_jobs SET progress = $1 WHERE id = $2`) runs its
\* statement: the writes are not awaited, so they settle in any order
ProgressWriteLands ==
    /\ \E i \in (1..Len(issued)) \ applied :
        /\ rowProgress' = issued[i].value
        /\ applied' = applied \cup {i}
    /\ UNCHANGED <<rowStatus, rowOutputUrl>>
    /\ UNCHANGED progressVars
    /\ UNCHANGED nonRowVars

\* safeQuery rejects after its retries: .catch logs, the render goes on
ProgressWriteGivesUp ==
    /\ \E i \in (1..Len(issued)) \ applied : applied' = applied \cup {i}
    /\ UNCHANGED <<rowStatus, rowProgress, rowOutputUrl>>
    /\ UNCHANGED progressVars
    /\ UNCHANGED nonRowVars

\* renderMedia has resolved, the upload is done and completeJob commits:
\* UPDATE render_jobs SET status = 'completed', output_url = $1,
\* progress = 1
RowCompleted ==
    /\ rowStatus = "rendering"
    /\ rowStatus' = "completed"
    /\ rowProgress' = ReportSteps
    /\ rowOutputUrl' = TRUE
    /\ UNCHANGED applied
    /\ UNCHANGED progressVars
    /\ UNCHANGED nonRowVars

(* ------------- completeJob and failJob applied to one row ------------- *)
\* characters, so that a text shows the position of each of them
Digits == <<"0", "1", "2", "3", "4", "5", "6", "7", "8", "9">>

\* a text of n characters
Text(n) == [i \in 1..n |-> Digits[(i % 10) + 1]]

\* String(n) of a non-negative integer
RECURSIVE DecimalDigits(_)
DecimalDigits(n) ==
    IF n < 10 THEN <<Digits[n + 1]>>
    ELSE Append(DecimalDigits(n \div 10), Digits[(n % 10) + 1])

\* what processJob can catch: Error objects, thrown strings, and other
\* values; the messages are empty, short, and at, next to and away from
\* the limit
ErrorValues ==
    LET lengths ==
            {0, MessageSlack}
            \cup {ErrorLimit + d : d \in {-MessageSlack, -1, 0, 1,
                                            MessageSlack}}
    IN  {[type |-> "Error", message |-> Text(n)] : n \in lengths}
        \cup {[type |-> "string", value |-> Text(n)] : n \in lengths}
        \cup {[type |-> "number", number |-> n] :
                n \in {0, 7, 42, ErrorLimit}}
        \cup {[type |-> "undefined"], [type |-> "null"],
              [type |-> "object"]}

\* String(error)
String(error) ==
    CASE error.type = "string" -> error.value
      [] error.type = "number" -> DecimalDigits(error.number)
      [] error.type = "undefined" ->
            <<"u", "n", "d", "e", "f", "i", "n", "e", "d">>
      [] error.type = "null" -> <<"n", "u", "l", "l">>
      [] error.type = "object" ->
            <<"[", "o", "b", "j", "e", "c", "t", " ",
              "O", "b", "j", "e", "c", "t", "]">>
      [] error.type = "Error" ->
            <<"E", "r", "r", "o", "r", ":", " ">> \o error.message

\* error instanceof Error ? error.message : String(error)
ErrorMessageOf(error) ==
    IF error.type = "Error" THEN error.message ELSE String(error)

\* errorMessage.slice(0, 1000)
TruncatedNot(errorMessage) == errorMessage
Truncated(errorMessage) ==
    SubSeq(errorMessage, 1, Min(Len(errorMessage), ErrorLimit))

\* the arguments processJob calls completeJob with for job j
CompleteJobArgs(j) ==
    [op |-> "completeJob", url |-> StorageKey(j),
     creditsToDeduct |-> CreditsToDeduct(j)]

\* time passes between two statements
TerminalTick ==
    /\ tNow <= Len(tApplied)
    /\ tNow' = tNow + 1
    /\ UNCHANGED <<tRow, tCredits, tApplied, tAfter>>
    /\ UNCHANGED nonTerminalVars

\* completeJob(jobId, url, userId, creditsToDeduct) commits:
\* UPDATE render_jobs SET status = 'completed', output_url = $1,
\* progress = 1, completed_at = NOW() WHERE id = $2;
\* UPDATE users SET credits = GREATEST(credits - $1, 0) WHERE id = $2
CompleteJobApplied(j) ==
    /\ Len(tApplied) < MaxApplications
    /\ tRow' = [tRow EXCEPT !.status = "completed",
                            !.output_url = CompleteJobArgs(j).url,
                            !.progress = ProgressScale,
                            !.completed_at = tNow]
    /\ tCredits' =
            Greatest(tCredits - CompleteJobArgs(j).creditsToDeduct, 0)
    /\ tApplied' = Append(tApplied, CompleteJobArgs(j))
    /\ tAfter' = Append(tAfter, [row |-> tRow', credits |-> tCredits'])
    /\ UNCHANGED tNow
    /\ UNCHANGED nonTerminalVars

\* failJob(jobId, error), its safeQuery resolving:
\* UPDATE render_jobs SET status = 'failed', error = $1 WHERE id = $2
FailJobApplied(error) ==
    /\ Len(tApplied) < MaxApplications
    /\ tRow' = [tRow EXCEPT !.status = "failed",
                            !.error = Truncated(ErrorMessageOf(error))]
    /\ tApplied' = Append(tApplied, [op |-> "failJob", error |-> error])
    /\ tAfter' = Append(tAfter, [row |-> tRow', credits |-> tCredits])
    /\ UNCHANGED <<tCredits, tNow>>
    /\ UNCHANGED nonTerminalVars

(* ------------- unhandledRejection / uncaughtException handlers -------- *)
\* error messages, word by word
ErrorMessages ==
    {<<"Connection", "terminated", "unexpectedly">>,
     <<"terminating", "connection", "due", "to", "administrator", "command">>,
     <<"read", "ECONNRESET">>,
     <<"write", "EPIPE">>,
     <<"connect", "ECONNREFUSED">>,
     <<"Cannot", "read", "properties", "of", "undefined">>}

\* err.message.includes(pattern)
Includes(message, pattern) ==
    \E i \in 0..(Len(message) - Len(pattern)) :
        \A k \in 1..Len(pattern) : message[i + k] = pattern[k]

\* const isRecoverableConnectionError = ...
isRecoverableNever(message) == FALSE
isRecoverableConnectionError(message) ==
    \/ Includes(message, <<"Connection", "terminated", "unexpectedly">>)
    \/ Includes(message, <<"terminating", "connection">>)
    \/ Includes(message, <<"ECONNRESET">>)
    \/ Includes(message, <<"EPIPE">>)

\* process.on('unhandledRejection', ...): console.error only
UnhandledRejection(w) ==
    /\ Alive(w)
    /\ handled[w] < MaxUnexpected
    /\ handled' = [handled EXCEPT ![w] = @ + 1]
    /\ \E message \in ErrorMessages :
        unexpected' = [unexpected EXCEPT
                         ![w] = [event |-> "unhandledRejection",
                                 message |-> message]]
    /\ UNCHANGED workerVars
    /\ UNCHANGED nonWorkerErrorVars

\* process.on('uncaughtException', ...): a recoverable connection error
\* is logged; any other error calls shutdown('uncaughtException')
UncaughtException(w) ==
    /\ Alive(w)
    /\ handled[w] < MaxUnexpected
    /\ handled' = [handled EXCEPT ![w] = @ + 1]
    /\ \E message \in ErrorMessages :
        /\ unexpected' = [unexpected EXCEPT
                            ![w] = [event |-> "uncaughtException",
                                    message |-> message]]
        /\ IF isRecoverableConnectionError(message)
           THEN UNCHANGED workerVars
           ELSE shutdown(w)
    /\ UNCHANGED nonWorkerErrorVars

(* ------------------- makeRenderQueue and the HTTP API ----------------- *)
\* jobs.set(jobId, { progress, status: "in-progress", cancel: cancel, .. })
InProgressEntryStale(halves) ==
    [status |-> "in-progress", cancel |-> "delete", progress |-> halves]
InProgressEntry(halves) ==
    [status |-> "in-progress", cancel |-> "signal", progress |-> halves]

\* jobs.set(jobId, { status: "failed", error, data })
FailedEntry(error) ==
    [status |-> "failed", cancel |-> "none", error |-> error]

\* the start of processRender(jobId), up to its first await, run by the
\* callback queue.then registered: an id jobs no longer holds makes it
\* throw, which rejects the chain, and no later callback is called
ProcessRenderStart(map, thens) ==
    LET jobId == Head(thens) IN
    IF map[jobId] = Absent
    THEN /\ jobs' = map
         /\ queue' = [state |-> "rejected", callbacks |-> Tail(thens)]
         /\ processing' = 0
         /\ renderPc' = "idle"
         /\ cancelled' = FALSE
         /\ UNCHANGED rendered
    ELSE /\ jobs' = [map EXCEPT ![jobId] = InProgressEntry(0)]
         /\ queue' = [state |-> "pending", callbacks |-> Tail(thens)]
         /\ processing' = jobId
         /\ renderPc' = "selectComposition"
         /\ cancelled' = FALSE
         /\ rendered' = [rendered EXCEPT ![jobId] = TRUE]

\* a processRender call returns with jobs as map: its promise fulfils and
\* the next callback of the chain, if there is one, runs
ProcessRenderEnd(map) ==
    IF queue.callbacks = <<>>
    THEN /\ jobs' = map
         /\ queue' = [state |-> "fulfilled", callbacks |-> <<>>]
         /\ processing' = 0
         /\ renderPc' = "idle"
         /\ cancelled' = FALSE
         /\ UNCHANGED rendered
    ELSE ProcessRenderStart(map, queue.callbacks)

\* app.post("/renders") with a valid body: createJob -> queueRender, and
\* the callback at once when the chain is fulfilled
CreateJob ==
    /\ created < MaxJobsCreated
    /\ created' = created + 1
    /\ LET jobId == created + 1
           map == [jobs EXCEPT
                     ![jobId] = [status |-> "queued", cancel |-> "delete"]]
       IN  IF queue.state = "fulfilled"
           THEN ProcessRenderStart(map, <<jobId>>)
           ELSE /\ jobs' = map
                /\ queue' = [queue EXCEPT
                                !.callbacks = Append(@, jobId)]
                /\ UNCHANGED <<processing, renderPc, cancelled, rendered>>
    /\ UNCHANGED <<cancelAccepted, deletes, response>>
    /\ UNCHANGED nonRegistryVars

\* await selectComposition(...) resolves
SelectResolve ==
    /\ renderPc = "selectComposition"
    /\ renderPc' = "renderMedia"
    /\ UNCHANGED <<jobs, queue, processing, cancelled, created, rendered,
                   cancelAccepted, deletes, response>>
    /\ UNCHANGED nonRegistryVars

\* await selectComposition(...) rejects: catch sets the job failed
SelectReject ==
    /\ renderPc = "selectComposition"
    /\ ProcessRenderEnd(
           [jobs EXCEPT ![processing] = FailedEntry("selectComposition")])
    /\ UNCHANGED <<created, cancelAccepted, deletes, response>>
    /\ UNCHANGED nonRegistryVars

\* renderMedia({ cancelSignal, ... }): a cancelled signal rejects the call
RenderMediaOutcomes(signal) ==
    IF signal THEN {"rejected"} ELSE {"fulfilled", "rejected"}

\* onProgress: (progress) => { jobs.set(jobId, { ... "in-progress" }) }
RegistryOnProgress ==
    /\ renderPc = "renderMedia"
    /\ ~cancelled
    /\ \E halves \in {1, 2} :
        jobs' = [jobs EXCEPT ![processing] = InProgressEntry(halves)]
    /\ UNCHANGED <<queue, processing, renderPc, cancelled, created,
                   rendered, cancelAccepted, deletes, response>>
    /\ UNCHANGED nonRegistryVars

\* await renderMedia(...) resolves: the job is set completed
RenderResolve ==
    /\ renderPc = "renderMedia"
    /\ "fulfilled" \in RenderMediaOutcomes(cancelled)
    /\ ProcessRenderEnd(
           [jobs EXCEPT
              ![processing] = [status |-> "completed", cancel |-> "none"]])
    /\ UNCHANGED <<created, cancelAccepted, deletes, response>>
    /\ UNCHANGED nonRegistryVars

\* await renderMedia(...) rejects: catch sets the job failed
RenderReject ==
    /\ renderPc = "renderMedia"
    /\ "rejected" \in RenderMediaOutcomes(cancelled)
    /\ ProcessRenderEnd(
           [jobs EXCEPT ![processing] = FailedEntry(IF cancelled THEN "cancelled"
                                                  ELSE "renderMedia")])
    /\ UNCHANGED <<created, cancelAccepted, deletes, response>>
    /\ UNCHANGED nonRegistryVars

\* cancel: () => { jobs.delete(jobId) }
CancelQueuedKeep(map, jobId) == map
CancelQueued(map, jobId) == [map EXCEPT ![jobId] = Absent]

\* app.delete("/renders/:jobId")
DeleteRender(jobId) ==
    /\ deletes < MaxCancels
    /\ deletes' = deletes + 1
    /\ LET job == jobs[jobId] IN
        IF job = Absent
        THEN /\ response' = [jobId |-> jobId, code |-> 404]
             /\ UNCHANGED <<jobs, cancelled, cancelAccepted>>
        ELSE IF job.status # "queued" /\ job.status # "in-progress"
        THEN /\ response' = [jobId |-> jobId, code |-> 400]
             /\ UNCHANGED <<jobs, cancelled, cancelAccepted>>
        ELSE /\ response' = [jobId |-> jobId, code |-> 200]
             /\ cancelAccepted' = [cancelAccepted EXCEPT
                                     ![jobId] = job.status]
             /\ IF job.cancel = "delete"
                THEN /\ jobs' = CancelQueued(jobs, jobId)
                     /\ UNCHANGED cancelled
                ELSE /\ cancelled' = TRUE
                     /\ UNCHANGED jobs
    /\ UNCHANGED <<queue, processing, renderPc, created, rendered>>
    /\ UNCHANGED nonRegistryVars

Loop(w) ==
    \/ LoopBackpressure(w) \/ LoopWake(w)
    \/ ClaimStart(w) \/ ClaimSelect(w)
    \/ ClaimCommit(w) \/ ClaimFail(w)

\* processJob(job) without the progress reports of its render
Pipeline(w, j) ==
    \/ RenderDone(w, j) \/ RenderFail(w, j)
    \/ UploadDone(w, j) \/ UploadFail(w, j)
    \/ CompleteUpdateJob(w, j) \/ CompleteUpdateUser(w, j)
    \/ CompleteCommit(w, j) \/ CompleteFail(w, j)
    \/ FailJobWrite(w, j) \/ FailJobGiveUp(w, j)
    \/ Cleanup(w, j) \/ Settle(w, j)

Job(w, j) ==
    \/ ProgressWrite(w, j) \/ ProgressWriteFail(w, j)
    \/ Pipeline(w, j)

Shutdown(w) ==
    \/ LoopExit(w)
    \/ ShutdownSignal(w) \/ ShutdownDrained(w) \/ ExitClean(w)
    \/ ExitPoolEndRejected(w) \/ ForceExit(w)

\* one worker process with its signal handlers, each render reporting its
\* progress once
Next ==
    \E w \in Workers :
        \/ Loop(w)
        \/ Shutdown(w)
        \/ \E j \in Jobs : RenderProgressFinal(w, j) \/ Job(w, j)

\* the worker processes while no termination signal arrives, each render
\* reporting its progress once
NextFleet ==
    \E w \in Workers :
        \/ Loop(w)
        \/ \E j \in Jobs : RenderProgressFinal(w, j) \/ Job(w, j)

\* one worker process with its signal handlers, the renders reporting no
\* progress
NextPool ==
    \E w \in Workers :
        \/ Loop(w)
        \/ Shutdown(w)
        \/ \E j \in Jobs : Pipeline(w, j)

\* one worker process with its signal and error handlers, the renders
\* reporting no progress
NextErrors ==
    \E w \in Workers :
        \/ Loop(w)
        \/ Shutdown(w)
        \/ UnhandledRejection(w) \/ UncaughtException(w)
        \/ \E j \in Jobs : Pipeline(w, j)

\* the in-memory server: requests, and the render adapter's answers
NextRegistry ==
    \/ CreateJob
    \/ SelectResolve \/ SelectReject
    \/ RegistryOnProgress \/ RenderResolve \/ RenderReject
    \/ \E jobId \in JobIds : DeleteRender(jobId)

NextRetry ==
    \/ RetryCall
    \/ OuterTry \/ OuterExhausted \/ OuterResolve \/ OuterReject
    \/ InnerTry \/ InnerExhausted \/ InnerResolve \/ InnerReject
    \/ QueryResolve \/ QueryReject
    \/ \E f \in {Outer, Inner} : RetrySleepEnd(f)

NextProgress == ClockTick \/ ProgressCallback

\* one worker process and the files its jobs leave in TEMP_DIR, the
\* renders reporting no progress
NextDisk ==
    \E w \in Workers :
        \/ Loop(w)
        \/ \E j \in Jobs :
            \/ RenderDoneOnDisk(w, j) \/ RenderFailOnDisk(w, j)
            \/ UploadDone(w, j) \/ UploadFail(w, j)
            \/ CompleteUpdateJob(w, j) \/ CompleteUpdateUser(w, j)
            \/ CompleteCommit(w, j) \/ CompleteFail(w, j)
            \/ FailJobWrite(w, j) \/ FailJobGiveUp(w, j)
            \/ CleanupOnDisk(w, j) \/ Settle(w, j)

\* completeJob and failJob applied, one call after the other, to one row
NextTerminal ==
    \/ TerminalTick
    \/ \E j \in Jobs : CompleteJobApplied(j)
    \/ \E error \in ErrorValues : FailJobApplied(error)

\* one render, its progress writes and the row they update
NextRow ==
    \/ ClockTick \/ ReportWhileRendering
    \/ ProgressWriteLands \/ ProgressWriteGivesUp
    \/ RowCompleted

\* one worker process, with its signal handlers
Spec == Init /\ [][Next]_vars

\* several worker processes against one store
SpecFleet == InitWith(Workers, MAX_PARALLEL) /\ [][NextFleet]_vars

\* the in-memory server of src/server
SpecRegistry == InitWith({}, MAX_PARALLEL) /\ [][NextRegistry]_vars

\* the in-memory server when every selectComposition and every
\* renderMedia call settles
SpecRegistryLive ==
    /\ InitWith({}, MAX_PARALLEL)
    /\ [][NextRegistry]_vars
    /\ WF_vars(SelectResolve \/ SelectReject)
    /\ WF_vars(RenderResolve \/ RenderReject)

\* one worker process and the unexpected errors it handles
SpecErrors == Init /\ [][NextErrors]_vars

\* one worker process rendering several jobs at a time
SpecPool == InitWith({1}, MAX_PARALLEL + 1) /\ [][NextPool]_vars

\* the progress reporter of one render and its clock
SpecProgress == InitWith({}, MAX_PARALLEL) /\ [][NextProgress]_vars

\* one worker process and TEMP_DIR
SpecDisk == Init /\ [][NextDisk]_vars

\* the terminal transitions of one job
SpecTerminal == InitWith({}, MAX_PARALLEL) /\ [][NextTerminal]_vars

\* one render with its progress writes, up to completeJob
SpecRow == InitWith({}, MAX_PARALLEL) /\ [][NextRow]_vars

\* one call of the retry wrapper or of a function built on it
SpecRetry == InitWith({}, MAX_PARALLEL) /\ [][NextRetry]_vars

(* --------------------------- derived state ---------------------------- *)
\* number of getNextJob calls, over all processes, that returned job j
ReturnedTo(j) == SumOver([w \in Workers |-> returns[w][j]], Workers)

\* number of getNextJob calls that returned a job
TotalReturned == SumOver([j \in Jobs |-> ReturnedTo(j)], Jobs)

\* every getNextJob call started so far has returned or thrown
NoCallInFlight == \A w \in Workers : loopPc[w] \notin {"begin", "selected"}

CompletedJobs == {j \in Jobs : status[j] = "completed"}

\* sum of the creditsToDeduct of the jobs of S
Billed(S) == SumOver([j \in Jobs |-> CreditsToDeduct(j)], S)

\* the jobs active when shutdown started have all left processJob
KFinished(w) == \A j \in activeAtSignal[w] : taskPc[w][j] = "done"

(* ------------------------------- C1 ----------------------------------- *)
\* C1 as stated: every job is returned to at most one caller, and once all
\* N calls are over the number of calls that returned a job is min(N, M)
C1_AtomicClaimOriginal ==
    /\ \A j \in Jobs : ReturnedTo(j) <= 1
    /\ NoCallInFlight => TotalReturned = Min(calls, NumJobs)

\* C1 (amended): every job is returned to at most one getNextJob caller;
\* the calls that return a job never exceed min(N, M); and they equal
\* min(N, M) once all N calls are over provided none of them threw (a call
\* whose connection or statement fails rolls back, throws and returns no
\* job, its row staying queued)
C1_AtomicClaim ==
    /\ \A j \in Jobs : ReturnedTo(j) <= 1
    /\ TotalReturned <= Min(calls, NumJobs)
    /\ (NoCallInFlight /\ ~threw) => TotalReturned = Min(calls, NumJobs)

C1_Witness ==
    /\ NoCallInFlight /\ ~threw
    /\ calls = MaxCalls
    /\ TotalReturned = NumJobs
    /\ \A w \in Workers : \E j \in Jobs : returns[w][j] = 1

(* ------------------------------- C2 ----------------------------------- *)
\* C2: whatever the worker processes do, a job's stored status changes only
\* from queued to rendering or from rendering to completed or failed; a
\* completed or failed job keeps its status and no job returns to queued
C2_MonotonicStatus ==
    [][\A j \in Jobs :
          status'[j] # status[j] =>
              \/ status[j] = "queued" /\ status'[j] = "rendering"
              \/ status[j] = "rendering"
                 /\ status'[j] \in {"completed", "failed"}]_vars

C2_Witness ==
    \E j1, j2 \in Jobs :
        /\ status[j1] = "completed"
        /\ status[j2] = "failed"
        /\ progress[j2] = ProgressScale

(* ------------------------------- C3 ----------------------------------- *)
\* C3: completeJob is all-or-nothing: the store shows a job completed (with
\* its output_url and progress 1) exactly when it shows that job's debit,
\* the balance is the initial one less the debits of the completed jobs,
\* and while completeJob is between BEGIN and COMMIT or has failed, the job
\* is still rendering and undebited
C3_BillingAtomicity ==
    /\ credits = Greatest(InitialCredits - Billed(CompletedJobs), 0)
    /\ \A j \in Jobs :
        /\ status[j] = "completed" <=> debits[j] = 1
        /\ status[j] = "completed" =>
               output_url[j] = StorageKey(j) /\ progress[j] = ProgressScale
        /\ status[j] # "completed" => debits[j] = 0 /\ output_url[j] = NoUrl
    /\ \A w \in Workers, j \in Jobs :
        (taskPc[w][j] \in {"c_begin", "c_job", "c_user"}
         \/ caught[w][j] = "completeJob")
            => status[j] = "rendering" /\ debits[j] = 0

C3_Witness ==
    \E w \in Workers, j, k \in Jobs :
        /\ caught[w][j] = "completeJob"
        /\ status[j] = "rendering" /\ debits[j] = 0
        /\ status[k] = "completed" /\ debits[k] = 1
        /\ credits = Greatest(InitialCredits - CreditsToDeduct(k), 0)

(* ------------------------------- C4 ----------------------------------- *)
\* C4: a job whose stored status is failed has no debit, whichever step of
\* processJob failed: the balance is what the other jobs alone made it
C4_NoChargeOnFailure ==
    \A j \in Jobs :
        status[j] = "failed" =>
            /\ debits[j] = 0
            /\ credits =
                 Greatest(InitialCredits - Billed(CompletedJobs \ {j}), 0)
            /\ (CompletedJobs = {} => credits = InitialCredits)

C4_Witness ==
    \E j, k \in Jobs :
        /\ status[j] = "failed" /\ debits[j] = 0
        /\ output_url[j] = NoUrl
        /\ status[k] = "completed"
        /\ credits = Greatest(InitialCredits - CreditsToDeduct(k), 0)

(* ------------------------------- C5 ----------------------------------- *)
\* C5: in every step of any interleaving of the worker processes, a job's
\* debit count only goes from 0 to 1, and only in the step that writes the
\* job's completed status; the balance changes only in such a step
C5_NoDoubleCharge ==
    [][/\ \A j \in Jobs :
            debits'[j] # debits[j] =>
                /\ debits[j] = 0 /\ debits'[j] = 1
                /\ status[j] # "completed" /\ status'[j] = "completed"
       /\ credits' # credits => \E j \in Jobs : debits'[j] # debits[j]]_vars

C5_Witness ==
    /\ \A j \in Jobs : status[j] = "completed" /\ debits[j] = 1
    /\ \A w \in Workers : \E j \in Jobs : returns[w][j] = 1

(* ------------------------------- C6 ----------------------------------- *)
\* C6: credits are never negative, and a completeJob whose creditsToDeduct
\* is at least the current balance (the balance 0 included) commits the
\* completed status and leaves credits = 0
C6_FloorAtZero ==
    [][/\ credits >= 0 /\ credits' >= 0
       /\ \A j \in Jobs :
            (status[j] # "completed" /\ status'[j] = "completed"
             /\ CreditsToDeduct(j) >= credits) => credits' = 0]_vars

C6_Witness ==
    /\ credits = 0
    /\ \A j \in Jobs : status[j] = "completed"
    /\ Billed(CompletedJobs) > InitialCredits

(* ------------------------------- C7 ----------------------------------- *)
\* C7: in a worker process activeRenders is the number of jobs dispatched
\* to processJob and not yet finished, it stays within 0..MAX_PARALLEL, and
\* no claim is in progress while activeRenders >= MAX_PARALLEL
C7_ConcurrencyCap ==
    \A w \in Workers :
        /\ activeRenders[w] = Cardinality(ActiveJobs(w))
        /\ 0 <= activeRenders[w] /\ activeRenders[w] <= maxParallel
        /\ loopPc[w] \in {"begin", "selected"}
               => activeRenders[w] < maxParallel

C7_Witness ==
    \E w \in Workers, j1, j2 \in Jobs :
        /\ taskPc[w][j1] = "done"
        /\ taskPc[w][j2] \notin {"none", "done"}
        /\ activeRenders[w] = maxParallel
        /\ loopPc[w] = "sleep"

(* ------------------------------- C8 ----------------------------------- *)
\* C8: once shuttingDown is set in a worker process, no getNextJob call of
\* that process returns a job (none is moved from queued to rendering by
\* it) and no job is dispatched to processJob
C8_ShutdownStopsClaiming ==
    [][\A w \in Workers :
          shuttingDown[w] =>
              /\ returns'[w] = returns[w]
              /\ \A j \in Jobs :
                    taskPc'[w][j] = "render" => taskPc[w][j] = "render"]_vars

(* ------------------------------- C9 ----------------------------------- *)
\* C9 as stated: when shutdown started with k > 0 active jobs, an exit with
\* code 0 comes after all k finished and the pool was closed, and an exit
\* by the deadline has a non-zero code with renders still active
C9_DrainOrTimeoutOriginal ==
    \A w \in Workers :
        activeAtSignal[w] # {} =>
            /\ exitCode[w] = Exit0 =>
                   KFinished(w) /\ sdPc[w] = "ending" /\ ClientsOut(w) = 0
            /\ exitCode[w] = Exit1 => activeRenders[w] > 0

\* C9 (amended): when shutdown started with k > 0 active jobs, an exit with
\* code 0 comes only after all k finished and pool.end() was called (with
\* every client back unless a repeated signal made pool.end() reject); an
\* exit by the deadline has code 1 and happens while gracefulShutdown is
\* still waiting, in its wait loop (renders active, or finished less than
\* one sleep ago) or for pool.end()
C9_DrainOrTimeout ==
    \A w \in Workers :
        activeAtSignal[w] # {} =>
            /\ exitCode[w] = Exit0 =>
                   /\ KFinished(w) /\ sdPc[w] = "ending"
                   /\ signals[w] = 1 => ClientsOut(w) = 0
            /\ exitCode[w] = Exit1 =>
                   \/ sdPc[w] = "sleep"
                   \/ sdPc[w] = "ending" /\ ClientsOut(w) > 0

C9_Witness ==
    \E w \in Workers :
        /\ activeAtSignal[w] # {}
        /\ exitCode[w] = Exit0
        /\ signals[w] = 1
        /\ KFinished(w)

(* ------------------------------- C10 ---------------------------------- *)
\* C10: when a worker process has exited with code 0, every job a
\* getNextJob call of that process returned (moved to rendering) is
\* completed or failed
C10_NoInFlightWorkLost ==
    \A w \in Workers :
        exitCode[w] = Exit0 =>
            \A j \in Jobs :
                returns[w][j] > 0 => status[j] \in {"completed", "failed"}

(* ------------------------------- C11 ---------------------------------- *)
\* C11: every getNextJob call that selects a row selects the queued row
\* with the smallest created_at among the rows no transaction has locked,
\* and returns that row; when it returns with no other call in flight and
\* no claim having failed, every job still queued was created later, so
\* uncontended successive calls return the jobs in created_at order
C11_FifoClaimOrder ==
    [][\A w \in Workers :
          /\ (claimJob[w] = NoJob /\ claimJob'[w] # NoJob) =>
                /\ status[claimJob'[w]] = "queued"
                /\ jobLock[claimJob'[w]] = NoTx
                /\ \A k \in Jobs :
                      (status[k] = "queued" /\ jobLock[k] = NoTx)
                          => CreatedAt(claimJob'[w]) <= CreatedAt(k)
          /\ \A j \in Jobs :
                returns'[w][j] # returns[w][j] =>
                    /\ claimJob[w] = j /\ jobLock[j] = ClaimTx(w)
                    /\ ((\A v \in Workers \ {w} :
                            loopPc[v] \notin {"begin", "selected"})
                        /\ ~threw)
                          => \A k \in Jobs :
                                status'[k] = "queued"
                                    => CreatedAt(k) > CreatedAt(j)]_vars

C11_Witness ==
    /\ ~threw
    /\ calls = NumJobs - 1
    /\ NoCallInFlight
    /\ \E j \in Jobs :
        /\ status[j] = "queued"
        /\ \A k \in Jobs \ {j} : CreatedAt(k) < CreatedAt(j)
        /\ \A k \in Jobs \ {j} : ReturnedTo(k) = 1

(* ------------------------------- C12 ---------------------------------- *)
\* C12: a withRetry call never invokes its operation more than maxAttempts
\* times; when it returns, the operation was invoked exactly i times, i the
\* attempt that succeeded (every earlier one having failed), i <= maxAttempts,
\* and the operation's value is returned; when it throws, the operation was
\* invoked exactly maxAttempts times, every time failing, and the error
\* names the context, maxAttempts and the last underlying error
C12_RetryExhaustion ==
    LET n == MaxAttemptsOf(Outer)
        made == invoked[Outer]
    IN rKind # "none" =>
        /\ made <= Greatest(n, 0)
        /\ Len(opErrors) <= made
        /\ result.state = "returned" =>
              /\ made = attempt[Outer] /\ made >= 1 /\ made <= n
              /\ Len(opErrors) = made - 1
              /\ result.value \in {"value", "client", "rows"}
        /\ result.state = "threw" =>
              /\ made = Greatest(n, 0)
              /\ Len(opErrors) = made
              /\ result.error =
                   RetryError(ContextOf(Outer), n,
                              IF made = 0 THEN NoError ELSE opErrors[made])

C12_Witness ==
    /\ rKind = "withRetry"
    /\ rArg = DB_RETRY_ATTEMPTS
    /\ result.state = "threw"
    /\ invoked[Outer] = DB_RETRY_ATTEMPTS
    /\ result.error.layers
         = <<[context |-> "operation", attempts |-> DB_RETRY_ATTEMPTS]>>
    /\ result.error.cause = "boom"

(* ------------------------------- C20 ---------------------------------- *)
\* C20: one safeQuery call makes at most DB_RETRY_ATTEMPTS pool.connect()
\* attempts and at most DB_RETRY_ATTEMPTS client.query() attempts in total
C20_IndependentRetryBudgets ==
    rKind = "safeQuery" =>
        /\ connects <= DB_RETRY_ATTEMPTS
        /\ queries <= DB_RETRY_ATTEMPTS

(* ------------------------------- C13 ---------------------------------- *)
\* C13: workerLoop has stopped polling only if shuttingDown is set; the
\* process has exited only through the shutdown path, so neither a claim
\* that throws nor a failing step of a dispatched job (failJob's own write
\* included) ends the loop or the process; and whatever the other jobs did,
\* every dispatched job of a running process can take its next step
C13_ErrorIsolation ==
    \A w \in Workers :
        /\ loopPc[w] = "stopped" => shuttingDown[w]
        /\ exitCode[w] \in {Exit0, Exit1} => sdPc[w] # "none"
        /\ Alive(w) => \A j \in ActiveJobs(w) : ENABLED Pipeline(w, j)

C13_Witness ==
    \E w \in Workers, j, k \in Jobs :
        /\ Alive(w) /\ ~shuttingDown[w]
        /\ threw
        /\ caught[w][j] = "renderJob"
        /\ taskPc[w][k] = "cleanup" /\ status[k] = "completed"
        /\ loopPc[w] \in {"top", "sleep"}

(* ------------------------------- C14 ---------------------------------- *)
\* C14: the writes the progress reporter issues during one render: the
\* first carries a value other than the initial 0, any two consecutive
\* ones are more than PROGRESS_UPDATE_INTERVAL_MS apart and carry different
\* values, and lastProgressUpdate / lastProgressValue are the time and the
\* value of the last one; a callback less than an interval after a write,
\* or with the value last written, issues nothing
C14_ProgressThrottle ==
    /\ Len(issued) <= callbacks
    /\ issued # <<>> =>
          /\ issued[1].value # 0
          /\ lastProgressUpdate = issued[Len(issued)].at
          /\ lastReported = issued[Len(issued)].value
    /\ issued = <<>> => lastProgressUpdate = 0 /\ lastReported = 0
    /\ \A i \in 2..Len(issued) :
          /\ issued[i].at - issued[i - 1].at > PROGRESS_UPDATE_INTERVAL_MS
          /\ issued[i].value # issued[i - 1].value

C14_Witness ==
    /\ Len(issued) = 2
    /\ callbacks = 3
    /\ issued[2].at - issued[1].at = PROGRESS_UPDATE_INTERVAL_MS + 1

(* ------------------------------- C15 ---------------------------------- *)
\* C15: after strictly increasing progress callbacks, once more than the
\* throttle interval has passed since the last callback, the last write
\* the reporter issued carries the rounded progress of that last callback
\* (no write standing for the initial progress 0)
C15_ProgressCatchesUp ==
    (/\ callbacks > 0
     /\ increasing
     /\ now - lastFedAt > PROGRESS_UPDATE_INTERVAL_MS)
        => ProgressRounded(lastFed)
             = (IF issued = <<>> THEN 0 ELSE issued[Len(issued)].value)
(* C18, as stated: for an unhandled rejection and for an uncaught exception
   alike, an error of the connection class (its message has one of the
   recoverable patterns) leaves the worker as it was, shuttingDown unset
   included, and any other error starts the graceful shutdown *)
C18_UnexpectedErrorsOriginal ==
    [][LET connectionClass ==
            {<<"Connection", "terminated", "unexpectedly">>,
             <<"terminating", "connection", "due", "to", "administrator",
               "command">>,
             <<"read", "ECONNRESET">>, <<"write", "EPIPE">>}
       IN  \A w \in Workers :
            handled'[w] # handled[w] =>
                IF unexpected'[w].message \in connectionClass
                THEN workerVars' = workerVars
                ELSE shuttingDown'[w] /\ sdPc'[w] # "none"]_vars

(* C18, amended: an uncaught exception of the connection class leaves the
   worker as it was, and any other uncaught exception starts the graceful
   shutdown on the path of the termination signals; an unhandled rejection
   leaves the worker as it was, whatever its message *)
C18_UnexpectedErrors ==
    [][LET connectionClass ==
            {<<"Connection", "terminated", "unexpectedly">>,
             <<"terminating", "connection", "due", "to", "administrator",
               "command">>,
             <<"read", "ECONNRESET">>, <<"write", "EPIPE">>}
       IN  \A w \in Workers :
            handled'[w] # handled[w] =>
                IF \/ unexpected'[w].event = "unhandledRejection"
                   \/ unexpected'[w].message \in connectionClass
                THEN workerVars' = workerVars
                ELSE /\ shuttingDown'[w] /\ sdPc'[w] # "none"
                     /\ signals'[w] = signals[w] + 1]_vars

\* an uncaught exception that is no connection error has started the
\* shutdown of a worker with a render in flight, which now drains
C18_Witness ==
    \E w \in Workers :
        /\ unexpected[w].event = "uncaughtException"
        /\ unexpected[w].message = <<"connect", "ECONNREFUSED">>
        /\ shuttingDown[w] /\ sdPc[w] = "sleep" /\ signals[w] = 1
        /\ activeRenders[w] > 0

(* ------------------------------- C19 ---------------------------------- *)
(* C19: when processJob has run to its end for a claimed job in a process
   that has not exited, the job is completed or, a step having failed,
   failed: the row is not left in rendering with no step of the process
   left to write it *)
C19_FailureAlwaysRecorded ==
    \A w \in Workers : \A j \in Jobs :
        (Alive(w) /\ taskPc[w][j] = "done")
            => status[j] \in {"completed", "failed"}

(* ------------------------------- C16 ---------------------------------- *)
(* C16: once DELETE /renders/:jobId was accepted for a job in state
   in-progress, the cancel signal of the render in flight is set for as
   long as that render runs, the job is in-progress or failed and never
   completed, and it is failed once its processRender call has returned *)
C16_CancelRunningJob ==
    \A jobId \in JobIds :
        cancelAccepted[jobId] = "in-progress" =>
            /\ jobs[jobId].status \in {"in-progress", "failed"}
            /\ processing = jobId => cancelled
            /\ processing # jobId => jobs[jobId].status = "failed"

\* a render was cancelled while renderMedia ran, and the job is failed
\* with the adapter's cancellation as its error
C16_Witness ==
    \E jobId \in JobIds :
        /\ cancelAccepted[jobId] = "in-progress"
        /\ processing # jobId
        /\ jobs[jobId] = FailedEntry("cancelled")

(* ------------------------------- C17 ---------------------------------- *)
(* C17: a DELETE /renders/:jobId request is answered 200 exactly when the
   job is queued or in-progress; when it is answered 404 (unknown job) or
   400 (completed or failed job) the registry and the queue are as they
   were; and a job whose cancel was accepted while queued is absent from
   the registry from then on and no processRender call renders it *)
C17_CancelValidity ==
    [][/\ deletes' # deletes =>
            LET job == jobs[response'.jobId] IN
            /\ response'.code = 200 <=> job.status \in {"queued", "in-progress"}
            /\ response'.code = 404 <=> job = Absent
            /\ response'.code = 400 <=> job.status \in {"completed", "failed"}
            /\ response'.code # 200 =>
                /\ jobs' = jobs /\ queue' = queue /\ cancelled' = cancelled
                /\ processing' = processing /\ renderPc' = renderPc
       /\ \A jobId \in JobIds :
            cancelAccepted'[jobId] = "queued" =>
                /\ jobs'[jobId] = Absent
                /\ ~rendered'[jobId]
                /\ processing' # jobId]_vars

\* the cancel of a queued job was accepted, its turn in the queue has
\* come and gone, and the job was not rendered
C17_Witness ==
    \E jobId \in JobIds :
        /\ cancelAccepted[jobId] = "queued"
        /\ jobs[jobId] = Absent
        /\ \A k \in 1..Len(queue.callbacks) : queue.callbacks[k] # jobId
        /\ ~rendered[jobId]
        /\ response.code = 200

(* ------------------------------- C21 ---------------------------------- *)
(* C21: while the status of a job is rendering and renderMedia has
   reported increasing progress, no step lowers the stored progress of
   the job, in whatever order its progress writes settle *)
C21_StoredProgressMonotonic ==
    [][(increasing' /\ rowStatus = "rendering" /\ rowStatus' = "rendering")
          => rowProgress' >= rowProgress]_vars

(* ------------------------------- C26 ---------------------------------- *)
(* C26: a job whose status is completed has stored progress 1 and its
   output_url set, also when progress writes of its render settle after
   completeJob has committed *)
C26_CompletedMeansProgressOne ==
    rowStatus = "completed"
        => (rowProgress = ReportSteps /\ rowOutputUrl)

(* ------------------------------- C22 ---------------------------------- *)
(* C22: when processJob has finished for a job, whatever its outcome, the
   file TEMP_DIR/<job id>.mp4 is gone or cleanupFile was called for it
   (and has logged its success or its failure) *)
C22_CleanupRegardlessOfOutcome ==
    \A w \in Workers : \A j \in Jobs :
        taskPc[w][j] = "done" => (~tempFile[j] \/ cleanupLog[j] # "")

(* ------------------------------- C23 ---------------------------------- *)
(* C23, as stated: for every error value, the error failJob stores with
   status failed is non-empty, at most 1000 characters long, and equal to
   the first 1000 characters of the failure's message *)
C23_FailureRecordOriginal ==
    \A k \in 1..Len(tApplied) :
        tApplied[k].op = "failJob" =>
            LET message == ErrorMessageOf(tApplied[k].error)
                stored == tAfter[k].row.error
            IN  /\ tAfter[k].row.status = "failed"
                /\ stored # <<>>
                /\ Len(stored) <= 1000
                /\ Len(stored) = Min(Len(message), 1000)
                /\ \A i \in 1..Len(stored) : stored[i] = message[i]

(* C23, amended: for every error value, the error failJob stores with
   status failed is at most 1000 characters long and equal to the first
   1000 characters of the failure's message; it is non-empty exactly when
   that message is non-empty *)
C23_FailureRecord ==
    \A k \in 1..Len(tApplied) :
        tApplied[k].op = "failJob" =>
            LET message == ErrorMessageOf(tApplied[k].error)
                stored == tAfter[k].row.error
            IN  /\ tAfter[k].row.status = "failed"
                /\ stored # NullText
                /\ (stored # <<>>) <=> (message # <<>>)
                /\ Len(stored) <= 1000
                /\ Len(stored) = Min(Len(message), 1000)
                /\ \A i \in 1..Len(stored) : stored[i] = message[i]

\* failJob has stored the first 1000 characters of a longer message
C23_Witness ==
    /\ tApplied # <<>>
    /\ tApplied[Len(tApplied)].op = "failJob"
    /\ Len(ErrorMessageOf(tApplied[Len(tApplied)].error)) > 1000
    /\ tRow.status = "failed"
    /\ Len(tRow.error) = 1000

(* ------------------------------- C24 ---------------------------------- *)
(* C24: when the same terminal transition has been applied twice in a row
   with the same arguments (completeJob on the completed job, failJob on
   the failed job), the row of the job and the credits of its owner are
   as the first application left them *)
C24_IdempotentTerminalTransitions ==
    \A k \in 2..Len(tApplied) :
        tApplied[k] = tApplied[k - 1] => tAfter[k] = tAfter[k - 1]

(* ------------------------------- C25 ---------------------------------- *)
(* C25: when every render terminates, each job createJob has created
   becomes completed or failed, unless a cancel of that very job was
   accepted; cancels and failures of other jobs do not prevent it *)
C25_QueueLiveness ==
    \A jobId \in JobIds :
        (created >= jobId)
            ~> \/ jobs[jobId].status \in {"completed", "failed"}
               \/ cancelAccepted[jobId] # "none"

====
